---- MODULE Spec2Model ----
(***************************************************************************)
(* Cherrytree router (src/lib/router.js): route map compilation, path      *)
(* matching, dispatch and the transition life cycle.                       *)
(*                                                                         *)
(* Strings are sequences of one-character strings, so that the trailing    *)
(* slash stripping, the query split and the pattern match are computed.    *)
(***************************************************************************)
EXTENDS Integers, Sequences, FiniteSets, TLC

\* ------------------------------------------------------------------ bounds
\* the largest transition id handed out (nextId stops at MaxId + 1)
MaxId == 2
\* the largest number of middleware registered with use()
MaxMiddleware == 2
\* the largest number of catch handlers doTransition attaches to one transition
MaxHandlers == 2
\* the largest number of route nodes in a declaration handed to map()
MaxNodes == 2

\* --------------------------------------------------------------- constants
TRANSITION_CANCELLED == "TransitionCancelled"
TRANSITION_REDIRECTED == "TransitionRedirected"
\* the type of an error that is neither sentinel (a plain Error has no type)
PLAIN_ERROR == "Error"

\* `undefined` fields of `this.state = {}`
UndefPath == <<"undefined">>
UndefMap == [k \in {"undefined"} |-> "undefined"]
UndefRoutes == <<"undefined">>
\* null / undefined activeTransition
NoTransition == 0

EmptyMap == [k \in {} |-> k]

\* ------------------------------------------------------- string helpers
\* index of the first occurrence of character c in s at or after i, else 0
RECURSIVE IndexOf(_, _, _)
IndexOf(s, c, i) ==
  IF i > Len(s) THEN 0
  ELSE IF s[i] = c THEN i
  ELSE IndexOf(s, c, i + 1)

\* s.split(c)
RECURSIVE Split(_, _)
Split(s, c) ==
  LET i == IndexOf(s, c, 1)
  IN IF i = 0 THEN <<s>>
     ELSE <<SubSeq(s, 1, i - 1)>> \o Split(SubSeq(s, i + 1, Len(s)), c)

\* s.replace(/\/$/, '')
StripTrailingSlash(s) ==
  IF Len(s) > 0 /\ s[Len(s)] = "/" THEN SubSeq(s, 1, Len(s) - 1) ELSE s

\* ------------------------------------------------------------ path module
\* withoutQuery: the path up to the query mark
withoutQuery(path) ==
  LET i == IndexOf(path, "?", 1)
  IN IF i = 0 \/ i = Len(path) THEN path ELSE SubSeq(path, 1, i - 1)

\* the query codec's decode: "k=v&k2=v2" to a map from keys to values
RECURSIVE DecodePairs(_)
DecodePairs(pairs) ==
  IF pairs = <<>> THEN EmptyMap
  ELSE LET rest == DecodePairs(Tail(pairs))
           kv == Split(Head(pairs), "=")
           k == kv[1]
           v == IF Len(kv) > 1 THEN kv[2] ELSE <<>>
       IN [x \in DOMAIN rest \cup {k} |-> IF x = k THEN v ELSE rest[x]]

\* extractQuery(qs, path) || {}
extractQuery(path) ==
  LET i == IndexOf(path, "?", 1)
  IN IF i = 0 \/ i = Len(path) THEN EmptyMap
     ELSE DecodePairs(Split(SubSeq(path, i + 1, Len(path)), "&"))

\* the segments of a pattern or pathname: split on "/", trailing slash trimmed
Segments(p) == Split(StripTrailingSlash(p), "/")

IsCapture(seg) == Len(seg) > 0 /\ seg[1] = ":"

\* extractParamNames(pattern): the capture names a pattern declares
extractParamNames(pattern) ==
  LET segs == Segments(pattern)
  IN {Tail(segs[i]) : i \in {j \in DOMAIN segs : IsCapture(segs[j])}}

\* extractParams(pattern, pathname): [ok, params]; ok = FALSE is a null result
extractParams(pattern, pathname) ==
  LET ps == Segments(pattern)
      ss == Segments(pathname)
      fits == /\ Len(ps) = Len(ss)
              /\ \A i \in DOMAIN ps :
                   IF IsCapture(ps[i]) THEN Len(ss[i]) > 0 ELSE ps[i] = ss[i]
      caps == {i \in DOMAIN ps : IsCapture(ps[i])}
  IN IF ~fits THEN [ok |-> FALSE, params |-> EmptyMap]
     ELSE [ok |-> TRUE,
           params |-> [n \in {Tail(ps[i]) : i \in caps} |->
                         LET i == CHOOSE j \in caps : Tail(ps[j]) = n IN ss[i]]]

\* pick(map, names)
pick(map, names) == [k \in DOMAIN map \cap names |-> map[k]]

\* ------------------------------------------------------------- route tree
\* The route tree built by the DSL, as the list of its nodes in depth-first
\* declaration order; parent is the index of the parent node, 0 at the root.
\* The options bag has the key abstract, held by value, and the key meta,
\* whose value is an object: meta holds the reference to it, the heap its
\* content. The object of a route is identified by the route's name.
RouteNode(name, path, abstract, parent) ==
  [name |-> name, path |-> path,
   options |-> [abstract |-> abstract, meta |-> name],
   parent |-> parent]

\* a route as the matcher list holds it
RouteOf(tree, i) ==
  [name |-> tree[i].name, path |-> tree[i].path, options |-> tree[i].options]

\* memo.concat(route) along eachBranch: the ancestors of node i, then node i
RECURSIVE Branch(_, _)
Branch(tree, i) ==
  IF i = 0 THEN <<>> ELSE Append(Branch(tree, tree[i].parent), RouteOf(tree, i))

\* routes.reduce(...): the concatenated path of a branch
RECURSIVE ReducePath_NoSeparator(_, _)
ReducePath_NoSeparator(routes, n) ==
  IF n = 0 THEN <<>>
  ELSE LET memo == ReducePath_NoSeparator(routes, n - 1)
           r == routes[n]
       IN StripTrailingSlash(
            IF Len(r.path) > 0 /\ r.path[1] = "/" THEN r.path
            ELSE memo \o r.path)

RECURSIVE ReducePath(_, _)
ReducePath(routes, n) ==
  IF n = 0 THEN <<>>
  ELSE LET memo == ReducePath(routes, n - 1)
           r == routes[n]
       IN StripTrailingSlash(
            IF Len(r.path) > 0 /\ r.path[1] = "/" THEN r.path
            ELSE memo \o <<"/">> \o r.path)

BranchPath(routes) ==
  LET path == ReducePath(routes, Len(routes))
  IN IF path = <<>> THEN <<"/">> ELSE path

\* abstracts[path] = name, keeping the insertion order of Object.keys
PutKey(dict, path, name) ==
  IF \E k \in DOMAIN dict : dict[k].path = path
  THEN [k \in DOMAIN dict |->
          IF dict[k].path = path THEN [path |-> path, name |-> name] ELSE dict[k]]
  ELSE Append(dict, [path |-> path, name |-> name])

HasKey(dict, path) == \E k \in DOMAIN dict : dict[k].path = path

\* dict[path]
GetKey(dict, path) == dict[CHOOSE k \in DOMAIN dict : dict[k].path = path].name

\* no error thrown
NoError == [first |-> "", second |-> "", path |-> <<>>]

\* the callback eachBranch runs on every node, in depth-first order; a throw
\* of the dupe detection ends the traversal
RECURSIVE EachBranch_PushAbstract(_, _, _)
EachBranch_PushAbstract(tree, i, acc) ==
  IF i > Len(tree) \/ acc.thrown THEN acc
  ELSE LET routes == Branch(tree, i)
           path == BranchPath(routes)
           lastRoute == routes[Len(routes)]
           pushed == Append(acc.matchers,
                            [routes |-> routes, name |-> lastRoute.name, path |-> path])
           noted == IF lastRoute.options.abstract
                    THEN PutKey(acc.abstracts, path, lastRoute.name)
                    ELSE acc.abstracts
       IN IF HasKey(acc.dupes, path)
          THEN [acc EXCEPT !.matchers = pushed, !.abstracts = noted,
                           !.thrown = TRUE,
                           !.error = [first |-> GetKey(acc.dupes, path),
                                      second |-> lastRoute.name,
                                      path |-> path]]
          ELSE EachBranch_PushAbstract(tree, i + 1,
                 [acc EXCEPT !.matchers = pushed, !.abstracts = noted,
                             !.dupes = PutKey(@, path, lastRoute.name)])

RECURSIVE EachBranch_NoDupeCheck(_, _, _)
EachBranch_NoDupeCheck(tree, i, acc) ==
  IF i > Len(tree) THEN acc
  ELSE LET routes == Branch(tree, i)
           path == BranchPath(routes)
           lastRoute == routes[Len(routes)]
           pushed == Append(acc.matchers,
                            [routes |-> routes, name |-> lastRoute.name, path |-> path])
       IN IF lastRoute.options.abstract
          THEN EachBranch_NoDupeCheck(tree, i + 1,
                 [acc EXCEPT !.abstracts = PutKey(@, path, lastRoute.name)])
          ELSE EachBranch_NoDupeCheck(tree, i + 1,
                 [acc EXCEPT !.matchers = pushed,
                             !.dupes = PutKey(@, path, lastRoute.name)])

RECURSIVE EachBranch(_, _, _)
EachBranch(tree, i, acc) ==
  IF i > Len(tree) \/ acc.thrown THEN acc
  ELSE LET routes == Branch(tree, i)
           path == BranchPath(routes)
           lastRoute == routes[Len(routes)]
           pushed == Append(acc.matchers,
                            [routes |-> routes, name |-> lastRoute.name, path |-> path])
       IN IF lastRoute.options.abstract
          THEN EachBranch(tree, i + 1,
                 [acc EXCEPT !.abstracts = PutKey(@, path, lastRoute.name)])
          ELSE IF HasKey(acc.dupes, path)
          THEN [acc EXCEPT !.matchers = pushed, !.thrown = TRUE,
                           !.error = [first |-> GetKey(acc.dupes, path),
                                      second |-> lastRoute.name,
                                      path |-> path]]
          ELSE EachBranch(tree, i + 1,
                 [acc EXCEPT !.matchers = pushed,
                             !.dupes = PutKey(@, path, lastRoute.name)])

\* the index route forwarding of the abstract routes
RECURSIVE AddAliases(_, _, _, _)
AddAliases(matchers, abstracts, dupes, k) ==
  IF k > Len(abstracts) THEN matchers
  ELSE IF ~HasKey(dupes, abstracts[k].path)
  THEN AddAliases(matchers, abstracts, dupes, k + 1)
  ELSE LET first == CHOOSE j \in DOMAIN matchers :
                      /\ matchers[j].path = abstracts[k].path
                      /\ \A h \in 1..(j - 1) : matchers[h].path # abstracts[k].path
       IN AddAliases(Append(matchers, [routes |-> matchers[first].routes,
                                       name |-> abstracts[k].name,
                                       path |-> abstracts[k].path]),
                     abstracts, dupes, k + 1)

\* Cherrytree.prototype.map: [matchers, thrown, error], the matcher list it
\* leaves in this.matchers, whether it threw, and the routes and path the error
\* thrown names
map(tree) ==
  LET acc == EachBranch(tree, 1,
               [matchers |-> <<>>, dupes |-> <<>>, abstracts |-> <<>>,
                thrown |-> FALSE, error |-> NoError])
  IN IF acc.thrown
     THEN [matchers |-> acc.matchers, thrown |-> TRUE, error |-> acc.error]
     ELSE [matchers |-> AddAliases(acc.matchers, acc.abstracts, acc.dupes, 1),
           thrown |-> FALSE, error |-> NoError]

\* ------------------------------------------------------------------ match
\* the per-transition copy of a route; clone(route.options) is shallow: the
\* keys of the bag are copied, the object under meta is shared
descriptor(route, params) ==
  [name |-> route.name, path |-> route.path,
   params |-> pick(params, extractParamNames(route.path)),
   options |-> route.options]

\* matchers.some(...): the first matcher, from index j on, whose pattern
\* extracts params from the pathname; with none, `params || {}` and no routes
RECURSIVE FirstMatch_DefaultsToFirst(_, _, _)
FirstMatch_DefaultsToFirst(ms, pathname, j) ==
  IF j > Len(ms)
  THEN [routes |-> IF ms = <<>> THEN <<>> ELSE ms[1].routes, params |-> EmptyMap]
  ELSE LET r == extractParams(ms[j].path, pathname)
       IN IF r.ok THEN [routes |-> ms[j].routes, params |-> r.params]
          ELSE FirstMatch_DefaultsToFirst(ms, pathname, j + 1)

RECURSIVE FirstMatch_Last(_, _, _)
FirstMatch_Last(ms, pathname, j) ==
  IF j > Len(ms) THEN [routes |-> <<>>, params |-> EmptyMap]
  ELSE LET r == extractParams(ms[j].path, pathname)
           later == FirstMatch_Last(ms, pathname, j + 1)
       IN IF later.routes # <<>> \/ ~r.ok THEN later
          ELSE [routes |-> ms[j].routes, params |-> r.params]

RECURSIVE FirstMatch(_, _, _)
FirstMatch(ms, pathname, j) ==
  IF j > Len(ms) THEN [routes |-> <<>>, params |-> EmptyMap]
  ELSE LET r == extractParams(ms[j].path, pathname)
       IN IF r.ok THEN [routes |-> ms[j].routes, params |-> r.params]
          ELSE FirstMatch(ms, pathname, j + 1)

\* Cherrytree.prototype.match
match(ms, rawPath) ==
  LET stripped == StripTrailingSlash(rawPath)
      path == IF stripped = <<>> THEN <<"/">> ELSE stripped
      pathWithoutQuery == withoutQuery(path)
      found == FirstMatch(ms, pathWithoutQuery, 1)
  IN [routes |-> [k \in DOMAIN found.routes |->
                    descriptor(found.routes[k], found.params)],
      params |-> found.params,
      pathname |-> pathWithoutQuery,
      query |-> extractQuery(path)]

\* isEqual of two query maps
isEqual(a, b) == a = b

\* ------------------------------------------------------------ input space
Str_a == <<"/", "a">>
Str_aSlash == <<"/", "a", "/">>
Str_aQuery == <<"/", "a", "?", "x", "=", "1">>
Str_item7 == <<"/", "p", "/", "7">>
Str_item7Query == <<"/", "p", "/", "7", "?", "x", "=", "1">>
Str_nowhere == <<"/", "z">>

\* the paths the environment hands to dispatch / transitionTo
DispatchPaths == {Str_a, Str_aSlash, Str_item7Query}

\* the paths dispatched in the runs that go back to the committed target: a
\* path the route a matches and a path no matcher matches
BackPaths == {Str_a, Str_nowhere}

\* the paths dispatched in the runs checked for termination
LivePaths == {Str_aSlash, Str_item7Query}

\* further paths dispatch is evaluated on in every reachable state: one that
\* differs from "/a" in the query alone, one that differs from "/p/7?x=1" in
\* the query alone, and one no matcher matches
ExtraPaths == {Str_aQuery, Str_item7, Str_nowhere}

ProbePaths == DispatchPaths \cup ExtraPaths

\* map([{name:'a', path:'/a'}, {name:'p', path:'/p', children:[{name:'item', path:':id'}]}])
RouteTree ==
  << RouteNode("a", <<"/", "a">>, FALSE, 0),
     RouteNode("p", <<"/", "p">>, FALSE, 0),
     RouteNode("item", <<":", "i", "d">>, FALSE, 2) >>

\* the declarations handed to map(): every tree of up to MaxNodes nodes, in
\* depth-first declaration order, each node with one of these paths, abstract
\* or not, and named by its position
Str_posts == <<"/", "p", "o", "s", "t", "s">>
Str_postsRel == <<"p", "o", "s", "t", "s">>
Str_id == <<"/", ":", "i", "d">>
Str_idRel == <<":", "i", "d">>

NodePaths == {Str_posts, Str_postsRel, Str_id, Str_idRel}

NodeNames == <<"posts", "post", "page", "item">>

\* the nodes on the branch from the root to node i
RECURSIVE OnBranch(_, _)
OnBranch(shape, i) ==
  IF i = 0 THEN {} ELSE {i} \cup OnBranch(shape, shape[i].parent)

\* node i is declared at the root or under a node of the branch declared
\* just before it
DepthFirst(shape) ==
  /\ shape[1].parent = 0
  /\ \A i \in 2..Len(shape) : shape[i].parent \in {0} \cup OnBranch(shape, i - 1)

TreesOfSize(n) ==
  {[i \in 1..n |-> RouteNode(NodeNames[i], shape[i].path, shape[i].abstract,
                             shape[i].parent)] :
     shape \in {sh \in [1..n -> [path : NodePaths, abstract : BOOLEAN,
                                 parent : 0..(n - 1)]] : DepthFirst(sh)}}

RouteTrees == UNION {TreesOfSize(n) : n \in 1..MaxNodes}

\* the paths matched against every compiled declaration
Str_posts42sort ==
  <<"/", "p", "o", "s", "t", "s", "/", "4", "2", "?",
    "s", "o", "r", "t", "=", "d", "e", "s", "c">>
Str_42 == <<"/", "4", "2">>

MapPaths == {Str_posts, Str_posts42sort, Str_42, Str_nowhere}

\* the targets handed to transitionTo / replaceWith: urls, the name of the
\* route a, the name of the route item (whose path has a capture) and a name
\* no route has
Str_nameA == <<"a">>
Str_nameItem == <<"i", "t", "e", "m">>
Str_nameNone == <<"n", "o", "n", "e">>

NavTargets == {Str_a, Str_aSlash, Str_item7Query, Str_nameA, Str_nameNone}

\* the path listen() is started with (the memory location's first URL)
ListenPaths == {Str_a}

\* the outcomes a middleware step can settle with: it resolves, or it raises
\* an error of one of these types
Resolved == "resolved"
Outcomes == {Resolved, PLAIN_ERROR}

\* ------------------------------------------------------------------ state
VARIABLES
  nextId,      \* this.nextId
  state,       \* this.state: the committed state and the activeTransition slot
  middleware,  \* this.middleware
  matchers,    \* this.matchers
  routes,      \* this.routes: the route tree map() was last given
  heap,        \* the content of the objects the option bags refer to
  location,    \* this.location: [defined, url]
  trans        \* every transition object created so far, by id

vars == <<nextId, state, middleware, matchers, routes, heap, location, trans>>

\* the objects of a declaration as declared
Declared == "declared"
Mutated == "mutated"

DeclaredHeap ==
  [o \in {"a", "p", "item"} \cup {NodeNames[i] : i \in DOMAIN NodeNames} |-> Declared]

\* this.state = {}
EmptyState ==
  [path |-> UndefPath, pathname |-> UndefPath, params |-> UndefMap,
   query |-> UndefMap, routes |-> UndefRoutes, activeTransition |-> NoTransition]

NoErr == [type |-> "none", nextPath |-> UndefPath]

\* the part of the program state that dispatch and the transitions write
World == [state |-> state, trans |-> trans, location |-> location, nextId |-> nextId]

Ids == 1..Len(trans)

IsPending(w, t) == w.trans[t].state = "pending"

Terminal == {"completed", "cancelled", "redirected", "failed"}

\* --------------------------------------------------------- transition.js
\* the state tag a rejection with this error leaves the transition in
TagOf(err) ==
  IF err.type = TRANSITION_CANCELLED THEN "cancelled"
  ELSE IF err.type = TRANSITION_REDIRECTED THEN "redirected"
  ELSE "failed"

\* the catch handlers doTransition attached, run in the order attached
RECURSIVE RunHandlers(_, _, _)
RunHandlers(loc, handlers, err) ==
  IF handlers = <<>> THEN loc
  ELSE RunHandlers(
         IF err.type = TRANSITION_CANCELLED
         THEN [loc EXCEPT !.url = Head(handlers)] ELSE loc,
         Tail(handlers), err)

\* the transition's outcome rejects with err: it leaves the pending state,
\* gives up the activeTransition slot if it holds it, and its handlers run
Reject_KeepsSlot(w, t, err) ==
  [w EXCEPT
     !.trans[t].state = TagOf(err),
     !.trans[t].err = err,
     !.trans[t].settled = @ + 1,
     !.location = RunHandlers(@, w.trans[t].handlers, err)]

Reject(w, t, err) ==
  [w EXCEPT
     !.trans[t].state = TagOf(err),
     !.trans[t].err = err,
     !.trans[t].settled = @ + 1,
     !.state.activeTransition = IF @ = t THEN NoTransition ELSE @,
     !.location = RunHandlers(@, w.trans[t].handlers, err)]

\* transition.cancel(err): nothing once the transition has left pending
cancel_Unguarded(w, t, err) ==
  Reject(w, t,
         IF err = NoErr
         THEN [type |-> TRANSITION_CANCELLED, nextPath |-> UndefPath] ELSE err)

cancel(w, t, err) ==
  IF ~IsPending(w, t) THEN w
  ELSE Reject(w, t,
         IF err = NoErr
         THEN [type |-> TRANSITION_CANCELLED, nextPath |-> UndefPath] ELSE err)

\* every step resolved: the match data becomes the committed state
Complete(w, t) ==
  LET tr == w.trans[t]
  IN [w EXCEPT
        !.trans[t].state = "completed",
        !.trans[t].settled = @ + 1,
        !.state = [path |-> tr.path, pathname |-> tr.pathname, params |-> tr.params,
                   query |-> tr.query, routes |-> tr.routes,
                   activeTransition |-> NoTransition]]

\* invoke step i + 1 of the chain, or complete when the chain is exhausted;
\* nothing once the transition has left pending
callNext(w, t, i, chain) ==
  IF ~IsPending(w, t) THEN w
  ELSE IF i < Len(chain)
  THEN [w EXCEPT !.trans[t].inflight = @ \cup {i + 1},
                 !.trans[t].invoked = Append(@, chain[i + 1])]
  ELSE Complete(w, t)

\* step i of t, which is in flight, settles
settle_ActsWhenLate(w, t, i, outcome, chain) ==
  LET w1 == [w EXCEPT !.trans[t].inflight = @ \ {i}]
  IN IF outcome = Resolved
     THEN callNext([w1 EXCEPT !.trans[t].resolved = @ \cup {i}], t, i, chain)
     ELSE IF IsPending(w, t)
     THEN Reject(w1, t, [type |-> outcome, nextPath |-> UndefPath])
     ELSE [w1 EXCEPT !.state.activeTransition = NoTransition]

settle(w, t, i, outcome, chain) ==
  LET w1 == [w EXCEPT !.trans[t].inflight = @ \ {i}]
  IN IF ~IsPending(w, t) THEN w1
     ELSE IF outcome = Resolved
     THEN callNext([w1 EXCEPT !.trans[t].resolved = @ \cup {i}], t, i, chain)
     ELSE Reject(w1, t, [type |-> outcome, nextPath |-> UndefPath])

\* transition({id, path, match, noop, router})
transition(id, path, m, noop) ==
  [id |-> id, path |-> path, pathname |-> m.pathname, query |-> m.query,
   params |-> m.params, routes |-> m.routes, noop |-> noop,
   state |-> IF noop THEN "completed" ELSE "pending",
   err |-> NoErr,
   settled |-> IF noop THEN 1 ELSE 0,
   started |-> noop,
   inflight |-> {},
   resolved |-> {},
   invoked |-> <<>>,
   handlers |-> <<>>]

\* ------------------------------------------------------------- router.js
\* dispatch, lines 339-341: the active transition already targets `path`
SameTarget_ByPath(w, path, m) ==
  /\ w.state.activeTransition # NoTransition
  /\ w.trans[w.state.activeTransition].path = path

SameTarget(w, path, m) ==
  /\ w.state.activeTransition # NoTransition
  /\ w.trans[w.state.activeTransition].pathname = m.pathname
  /\ isEqual(w.trans[w.state.activeTransition].query, m.query)

\* dispatch, lines 347-352: cancel the active transition with a redirect error
RedirectActive_Skipped(w, path) == w

RedirectActive_NormalizedPath(w, path) ==
  IF w.state.activeTransition # NoTransition
  THEN cancel(w, w.state.activeTransition,
              [type |-> TRANSITION_REDIRECTED,
               nextPath |-> withoutQuery(StripTrailingSlash(path))])
  ELSE w

RedirectActive(w, path) ==
  IF w.state.activeTransition # NoTransition
  THEN cancel(w, w.state.activeTransition,
              [type |-> TRANSITION_REDIRECTED, nextPath |-> path])
  ELSE w

\* dispatch, lines 358-360: nothing was active and the target is the
\* committed pathname and query
IsNoop_SlotEmpty(w, wasActive, path, m) ==
  /\ w.state.activeTransition = NoTransition
  /\ w.state.pathname = m.pathname
  /\ isEqual(w.state.query, m.query)

IsNoop_ByPath(w, wasActive, path, m) ==
  /\ ~wasActive
  /\ w.state.path = path

IsNoop(w, wasActive, path, m) ==
  /\ ~wasActive
  /\ w.state.pathname = m.pathname
  /\ isEqual(w.state.query, m.query)

\* dispatch, lines 361-380: the transition created, recorded as the active
\* one unless it is a noop
NewTransition_EagerCommit(w, path, m, noop) ==
  LET id == w.nextId
      w1 == [w EXCEPT !.nextId = @ + 1,
                      !.trans = Append(@, transition(id, path, m, noop))]
  IN [w |-> IF noop THEN w1
            ELSE [w1 EXCEPT !.state.activeTransition = id,
                            !.state.path = path,
                            !.state.pathname = m.pathname],
      t |-> id]

NewTransition_AlwaysActive(w, path, m, noop) ==
  LET id == w.nextId
      w1 == [w EXCEPT !.nextId = @ + 1,
                      !.trans = Append(@, transition(id, path, m, noop))]
  IN [w |-> [w1 EXCEPT !.state.activeTransition = id], t |-> id]

NewTransition(w, path, m, noop) ==
  LET id == w.nextId
      w1 == [w EXCEPT !.nextId = @ + 1,
                      !.trans = Append(@, transition(id, path, m, noop))]
  IN [w |-> IF noop THEN w1 ELSE [w1 EXCEPT !.state.activeTransition = id],
      t |-> id]

\* Cherrytree.prototype.dispatch: [w, t], the world after and the id of the
\* transition returned
dispatch(w, ms, path) ==
  LET m == match(ms, path)
      wasActive == w.state.activeTransition # NoTransition
  IN IF SameTarget(w, path, m)
     THEN [w |-> w, t |-> w.state.activeTransition]
     ELSE LET w1 == RedirectActive(w, path)
          IN NewTransition(w1, path, m, IsNoop(w1, wasActive, path, m))

\* the characters of a route name, as transitionTo / generate are handed it
NameChars(name) ==
  CASE name = "a" -> <<"a">>
    [] name = "p" -> <<"p">>
    [] name = "item" -> <<"i", "t", "e", "m">>
    [] name = "posts" -> <<"p", "o", "s", "t", "s">>
    [] name = "post" -> <<"p", "o", "s", "t">>
    [] OTHER -> <<>>

\* matchers.forEach(...): the last matcher named `name`, 0 with none
LastNamed(ms, name) ==
  LET named == {k \in DOMAIN ms : NameChars(ms[k].name) = name}
  IN IF named = {} THEN 0 ELSE CHOOSE k \in named : \A j \in named : j <= k

\* Cherrytree.prototype.generate(name) without params and query:
\* [ok, url]; ok = FALSE is a throw
generate_AsPath(w, ms, name) ==
  LET k == LastNamed(ms, name)
  IN IF ~w.location.defined THEN [ok |-> FALSE, url |-> <<>>]
     ELSE IF k = 0 THEN [ok |-> TRUE, url |-> <<"/">> \o name]
     ELSE IF extractParamNames(ms[k].path) # {} THEN [ok |-> FALSE, url |-> <<>>]
     ELSE [ok |-> TRUE, url |-> ms[k].path]

generate(w, ms, name) ==
  LET k == LastNamed(ms, name)
  IN IF ~w.location.defined THEN [ok |-> FALSE, url |-> <<>>]
     ELSE IF k = 0 THEN [ok |-> FALSE, url |-> <<>>]
     \* injectParams: a capture with no param to fill it in
     ELSE IF extractParamNames(ms[k].path) # {} THEN [ok |-> FALSE, url |-> <<>>]
     ELSE [ok |-> TRUE, url |-> ms[k].path]

\* Cherrytree.prototype.doTransition(method, [target]): [w, t, thrown]; the
\* target is a url, or a route name when it does not start with '/'
\* lines 262-266: the url of the target, generated from a route name
TargetUrl(w, ms, target) ==
  IF target # <<>> /\ target[1] = "/"
  THEN [ok |-> TRUE, url |-> target]
  ELSE generate(w, ms, target)

\* lines 274-284: the catch handler attached to the transition dispatch
\* returned (d), then the url written to the location
Navigate(d, previousUrl, url) ==
  LET w1 == [d.w EXCEPT !.trans[d.t].handlers = Append(@, previousUrl)]
      \* a handler attached to an already rejected outcome still runs
      w2 == IF w1.trans[d.t].state \in {"cancelled", "redirected", "failed"}
            THEN [w1 EXCEPT !.location = RunHandlers(@, <<previousUrl>>, w1.trans[d.t].err)]
            ELSE w1
  IN [w |-> [w2 EXCEPT !.location.url = url], t |-> d.t, thrown |-> FALSE]

\* lines 260, 272: previousUrl read, the url dispatched; a throw of generate
\* ends the call before either
Requested(w, ms, g) ==
  IF ~g.ok THEN [w |-> w, t |-> NoTransition, thrown |-> TRUE]
  ELSE Navigate(dispatch(w, ms, g.url), w.location.url, g.url)

doTransition(w, ms, target) == Requested(w, ms, TargetUrl(w, ms, target))

\* Cherrytree.prototype.destroy
destroy_NoCancel(w) == [w EXCEPT !.state = EmptyState]

destroy(w) ==
  LET w1 == IF w.state.activeTransition # NoTransition
            THEN cancel(w, w.state.activeTransition, NoErr) ELSE w
  IN [w1 EXCEPT !.state = EmptyState]

\* ---------------------------------------------------------------- actions
Commit(w) ==
  /\ state' = w.state
  /\ trans' = w.trans
  /\ location' = w.location
  /\ nextId' = w.nextId

\* new Cherrytree({routes: RouteTree})
Init ==
  /\ nextId = 1
  /\ state = EmptyState
  /\ middleware = <<>>
  /\ routes = RouteTree
  /\ heap = DeclaredHeap
  /\ matchers = map(RouteTree).matchers
  /\ location = [defined |-> FALSE, url |-> UndefPath]
  /\ trans = <<>>

\* router.use(middleware)
Use_Unshift ==
  /\ Len(middleware) < MaxMiddleware
  /\ middleware' = <<Len(middleware) + 1>> \o middleware
  /\ UNCHANGED <<nextId, state, matchers, routes, heap, location, trans>>

Use ==
  /\ Len(middleware) < MaxMiddleware
  /\ middleware' = Append(middleware, Len(middleware) + 1)
  /\ UNCHANGED <<nextId, state, matchers, routes, heap, location, trans>>

\* router.map(tree); a throw leaves this.routes and this.matchers as written
Map(tree) ==
  /\ routes' = tree
  /\ matchers' = map(tree).matchers
  /\ heap' = DeclaredHeap
  /\ UNCHANGED <<nextId, state, middleware, location, trans>>

\* router.listen(path) with the memory location
Listen(path) ==
  /\ ~location.defined
  /\ nextId <= MaxId
  /\ LET w0 == [World EXCEPT !.location = [defined |-> TRUE, url |-> path]]
         d == dispatch(w0, matchers, w0.location.url)
     IN Commit(d.w)
  /\ UNCHANGED <<middleware, matchers, routes, heap>>

\* router.dispatch(path)
Dispatch(path) ==
  /\ LET d == dispatch(World, matchers, path)
     IN /\ d.w.nextId # nextId => nextId <= MaxId
        /\ Commit(d.w)
  /\ UNCHANGED <<middleware, matchers, routes, heap>>

\* router.transitionTo(target) / router.replaceWith(target)
TransitionTo(target) ==
  /\ location.defined
  /\ LET d == doTransition(World, matchers, target)
     IN /\ d.w.nextId # nextId => nextId <= MaxId
        /\ ~d.thrown => Len(d.w.trans[d.t].handlers) <= MaxHandlers
        /\ Commit(d.w)
  /\ UNCHANGED <<middleware, matchers, routes, heap>>

\* router.dispatch(path) while a transition is pending; it may take the id
\* after MaxId
Redispatch(path) ==
  /\ state.activeTransition # NoTransition
  /\ nextId <= MaxId + 1
  /\ Commit(dispatch(World, matchers, path).w)
  /\ UNCHANGED <<middleware, matchers, routes, heap>>

\* transition.cancel()
Cancel(t) ==
  /\ Commit(cancel(World, t, NoErr))
  /\ UNCHANGED <<middleware, matchers, routes, heap>>

\* the deferred first callNext of a transition that is not a noop
Start(t) ==
  /\ ~trans[t].started
  /\ Commit(callNext([World EXCEPT !.trans[t].started = TRUE], t, 0, middleware))
  /\ UNCHANGED <<middleware, matchers, routes, heap>>

\* a step of t that is in flight settles
Settle(t, outcome) ==
  /\ \E i \in trans[t].inflight :
       Commit(settle(World, t, i, outcome, middleware))
  /\ UNCHANGED <<middleware, matchers, routes, heap>>

\* a middleware step of t, while it runs, sets a key of the options bag of
\* route k of the transition's match result
MutateOption(t, k) ==
  /\ trans[t].inflight # {}
  /\ k \in DOMAIN trans[t].routes
  /\ trans' = [trans EXCEPT ![t].routes[k].options.abstract = ~@]
  /\ UNCHANGED <<nextId, state, middleware, matchers, routes, heap, location>>

\* a middleware step of t, while it runs, changes the object under the key
\* meta of that options bag
MutateNested(t, k) ==
  /\ trans[t].inflight # {}
  /\ k \in DOMAIN trans[t].routes
  /\ heap' = [heap EXCEPT ![trans[t].routes[k].options.meta] = Mutated]
  /\ UNCHANGED <<nextId, state, middleware, matchers, routes, location, trans>>

\* router.destroy()
Destroy ==
  /\ Commit(destroy(World))
  /\ UNCHANGED <<middleware, matchers, routes, heap>>

\* the router, its transitions and their middleware steps
Next ==
  \/ Use
  \/ \E path \in DispatchPaths : Dispatch(path)
  \/ \E t \in Ids : Cancel(t)
  \/ \E t \in Ids : Start(t)
  \/ \E t \in Ids, outcome \in Outcomes : Settle(t, outcome)
  \/ Destroy

Spec == Init /\ [][Next]_vars

\* The event loop runs every queued callback: the deferred start of a
\* transition runs, and (the premise of the termination claim) a middleware
\* step that was invoked settles.
StartOf(t) == t \in Ids /\ Start(t)

SettleOf(t) == t \in Ids /\ \E outcome \in Outcomes : Settle(t, outcome)

Fairness == \A t \in 1..MaxId : WF_vars(StartOf(t)) /\ WF_vars(SettleOf(t))

NextLive ==
  \/ Use
  \/ \E path \in LivePaths : Dispatch(path)
  \/ \E t \in Ids : Cancel(t)
  \/ \E t \in Ids : Start(t)
  \/ \E t \in Ids, outcome \in Outcomes : Settle(t, outcome)
  \/ Destroy

SpecLive == Init /\ [][NextLive]_vars /\ Fairness

\* the route map compiled again from any declaration
NextMap ==
  \/ \E tree \in RouteTrees : Map(tree)

SpecMap == Init /\ [][NextMap]_vars

\* dispatches that interrupt a pending transition
NextBack ==
  \/ Use
  \/ \E path \in BackPaths : Dispatch(path)
  \/ \E path \in BackPaths : Redispatch(path)
  \/ \E t \in Ids : Start(t)
  \/ \E t \in Ids : Settle(t, Resolved)

SpecBack == Init /\ [][NextBack]_vars

\* middleware that changes the match result it is handed
NextClone ==
  \/ Use
  \/ \E path \in LivePaths : Dispatch(path)
  \/ \E t \in Ids : Start(t)
  \/ \E t \in Ids : Settle(t, Resolved)
  \/ \E t \in Ids, k \in 1..2 : MutateOption(t, k)
  \/ \E t \in Ids, k \in 1..2 : MutateNested(t, k)

SpecClone == Init /\ [][NextClone]_vars

\* navigation through the location: listen(), transitionTo() / replaceWith()
\* by url and by route name, cancel()
NextUrl ==
  \/ \E path \in ListenPaths : Listen(path)
  \/ \E target \in NavTargets : TransitionTo(target)
  \/ \E t \in Ids : Cancel(t)
  \/ \E t \in Ids : Start(t)

SpecUrl == Init /\ [][NextUrl]_vars

\* the same with the location: listen() and transitionTo() / replaceWith()
NextNav ==
  \/ Next
  \/ \E path \in ListenPaths : Listen(path)
  \/ \E url \in DispatchPaths : TransitionTo(url)

SpecNav == Init /\ [][NextNav]_vars

\* ------------------------------------------------------------------ claims
Committed(st) ==
  [path |-> st.path, pathname |-> st.pathname, params |-> st.params,
   query |-> st.query, routes |-> st.routes]

MatchData(tr) ==
  [path |-> tr.path, pathname |-> tr.pathname, params |-> tr.params,
   query |-> tr.query, routes |-> tr.routes]

PendingIds(w) == {t \in 1..Len(w.trans) : IsPending(w, t)}

OnePending(w) ==
  /\ Cardinality(PendingIds(w)) <= 1
  /\ \A t \in PendingIds(w) : w.state.activeTransition = t

\* the dispatched path targets something else than the active transition
OtherTarget(w, m) ==
  /\ w.state.activeTransition # NoTransition
  /\ \/ w.trans[w.state.activeTransition].pathname # m.pathname
     \/ w.trans[w.state.activeTransition].query # m.query

\* C1: in every reachable state at most one transition is pending, and a
\* pending transition is the one in the activeTransition slot; this is so in
\* the state itself and after a dispatch of any further path from it
\* (transitionTo and replaceWith reach the transitions through dispatch only).
C1_Holds ==
  /\ OnePending(World)
  /\ \A p \in ExtraPaths : OnePending(dispatch(World, matchers, p).w)

\* C1: always, at most one transition is pending and it is the one in the
\* activeTransition slot, also after any further dispatch.
C1_OnePending == []C1_Holds

\* a superseded transition still has a step in flight while its successor is
\* the pending, active one
C1_Witness ==
  \E t, u \in Ids :
    /\ trans[t].state = "redirected"
    /\ trans[t].inflight # {}
    /\ IsPending(World, u)
    /\ state.activeTransition = u

\* C2: once a transition has left the pending state, no step changes its
\* list of invoked middleware, and the settlement of its in-flight step
\* changes neither the committed state nor the activeTransition slot.
C2_Step ==
  \A t \in Ids :
    trans[t].state # "pending" =>
      /\ trans'[t].invoked = trans[t].invoked
      /\ trans'[t].state = trans[t].state
      /\ trans'[t].inflight # trans[t].inflight => state' = state

\* C2: every step leaves a no-longer-pending transition's invoked list and
\* state alone, and its late settlement leaves the router state alone.
C2_LateSettlementIgnored == [][C2_Step]_vars

\* the step of a transition that was cancelled or redirected while the step
\* was in flight has settled, and a newer transition holds the slot
C2_Witness ==
  \E t, u \in Ids :
    /\ trans[t].state \in {"cancelled", "redirected"}
    /\ Len(trans[t].invoked) = 1
    /\ trans[t].inflight = {}
    /\ trans[t].resolved = {}
    /\ t < u
    /\ state.activeTransition = u

\* C3: a dispatch whose pathname or query differs from the pending
\* transition's rejects that transition as redirected with nextPath the
\* dispatched path, and creates a pending transition that is the only pending
\* one and the active one; no later step of a redirected transition changes
\* the committed state.
C3_Dispatch ==
  \A p \in ProbePaths :
    LET a == state.activeTransition
        d == dispatch(World, matchers, p)
    IN (a # NoTransition /\ OtherTarget(World, match(matchers, p))) =>
         /\ d.w.trans[a].state = "redirected"
         /\ d.w.trans[a].err = [type |-> TRANSITION_REDIRECTED, nextPath |-> p]
         /\ d.t = nextId
         /\ Len(d.w.trans) = Len(trans) + 1
         /\ d.w.trans[d.t].state = "pending"
         /\ d.w.trans[d.t].path = p
         /\ d.w.state.activeTransition = d.t
         /\ PendingIds(d.w) = {d.t}
         /\ Committed(d.w.state) = Committed(state)

C3_Afterwards ==
  \A t \in Ids :
    (trans[t].state = "redirected" /\ trans'[t] # trans[t]) =>
      Committed(state') = Committed(state)

\* C3: always, a dispatch to another target redirects the pending transition
\* and makes the new one the sole pending, active one; a redirected
\* transition never changes the committed state afterwards.
C3_Redirect == []C3_Dispatch /\ [][C3_Afterwards]_vars

\* a transition was redirected by the dispatch of a path that is not its
\* normalized form, and its in-flight step has settled since
C3_Witness ==
  \E t \in Ids :
    /\ trans[t].state = "redirected"
    /\ trans[t].err.nextPath \in {Str_aSlash, Str_item7Query}
    /\ t + 1 \in Ids
    /\ trans[t + 1].path = trans[t].err.nextPath
    /\ Len(trans[t].invoked) = 1
    /\ trans[t].inflight = {}

\* the dispatched path has the pathname and query of the active transition
SameAsActive(w, m) ==
  /\ w.state.activeTransition # NoTransition
  /\ w.trans[w.state.activeTransition].pathname = m.pathname
  /\ w.trans[w.state.activeTransition].query = m.query

\* C4: a dispatch whose pathname and query equal the pending transition's
\* returns that transition and changes nothing: no transition is created, no
\* id is consumed, nothing is cancelled, the slot and the committed state stay
\* (so repeating it changes nothing either).
C4_Holds ==
  state.activeTransition # NoTransition =>
    \A p \in ProbePaths :
      SameAsActive(World, match(matchers, p)) =>
        dispatch(World, matchers, p) = [w |-> World, t |-> state.activeTransition]

\* C4: always, a dispatch to the pending transition's own target returns
\* that transition and changes nothing.
C4_SameTargetReturnsPending == []C4_Holds

\* a transition is pending, with a step in flight, and a path other than its
\* own has its pathname and query
C4_Witness ==
  \E t \in Ids, p \in DispatchPaths :
    /\ state.activeTransition = t
    /\ IsPending(World, t)
    /\ trans[t].inflight # {}
    /\ p # trans[t].path
    /\ SameAsActive(World, match(matchers, p))

\* the dispatched path has the committed pathname and query, nothing pending
SameAsCommitted(w, m) ==
  /\ w.state.activeTransition = NoTransition
  /\ w.state.pathname = m.pathname
  /\ w.state.query = m.query

\* C5: with no transition pending, a dispatch whose pathname and query equal
\* the committed ones returns a noop transition that is settled, invokes no
\* middleware, is not put in the activeTransition slot and leaves the
\* committed state as it is; no noop transition ever has a step invoked or
\* holds the slot.
C5_Holds ==
  /\ \A p \in ProbePaths :
       LET d == dispatch(World, matchers, p)
       IN (state.activeTransition = NoTransition
           /\ SameAsCommitted(World, match(matchers, p))) =>
            /\ d.t = nextId
            /\ d.w.trans[d.t].noop
            /\ d.w.trans[d.t].state = "completed"
            /\ d.w.trans[d.t].started
            /\ d.w.state = state
            /\ SubSeq(d.w.trans, 1, Len(trans)) = trans
  /\ \A t \in Ids :
       trans[t].noop =>
         /\ trans[t].invoked = <<>>
         /\ trans[t].inflight = {}
         /\ trans[t].state = "completed"
         /\ state.activeTransition # t

\* C5: always, a dispatch to the committed target with nothing pending is a
\* settled noop that invokes nothing and never holds the slot.
C5_NoopDispatch == []C5_Holds

\* a noop transition exists for a path that is not the committed path, with
\* middleware registered
C5_Witness ==
  \E t \in Ids :
    /\ trans[t].noop
    /\ trans[t].path # state.path
    /\ trans[t].pathname = state.pathname
    /\ middleware # <<>>

\* C6: a pending transition whose last middleware step resolves becomes
\* completed; the step that completes a transition makes its match data the
\* committed path, pathname, params, query and routes and clears the slot;
\* the committed state is empty or the match data of a completed transition
\* that ran.
C6_Commits ==
  \/ Committed(state) = Committed(EmptyState)
  \/ \E u \in Ids :
       /\ trans[u].state = "completed"
       /\ ~trans[u].noop
       /\ Committed(state) = MatchData(trans[u])

C6_LastStep ==
  \A t \in Ids : \A i \in trans[t].inflight :
    (IsPending(World, t) /\ i = Len(middleware)) =>
      LET w == settle(World, t, i, Resolved, middleware)
      IN /\ w.trans[t].state = "completed"
         /\ Committed(w.state) = MatchData(trans[t])
         /\ w.state.activeTransition = NoTransition

C6_Step ==
  \A t \in Ids :
    (trans[t].state = "pending" /\ trans'[t].state = "completed") =>
      /\ Committed(state') = MatchData(trans[t])
      /\ state'.activeTransition = NoTransition
      /\ trans'[t].resolved = 1..Len(middleware)

\* C6: a transition completes only by its last middleware step resolving
\* while it is pending, and that step commits its match data and clears
\* the slot.
C6_Completion == [](C6_Commits /\ C6_LastStep) /\ [][C6_Step]_vars

\* a transition with params and a query completed after two steps and its
\* match data is the committed state
C6_Witness ==
  \E t \in Ids :
    /\ trans[t].state = "completed"
    /\ trans[t].resolved = {1, 2}
    /\ trans[t].params # EmptyMap
    /\ trans[t].query # EmptyMap
    /\ Committed(state) = MatchData(trans[t])

\* C7: the step in which a pending transition fails leaves the committed
\* state as it was, clears the slot and records the error raised; a failed
\* transition never holds the slot, so that a dispatch of any path creates a
\* transition and leaves the failed one alone.
C7_Failed ==
  \A t \in Ids :
    trans[t].state = "failed" =>
      /\ state.activeTransition # t
      /\ trans[t].err.type = PLAIN_ERROR
      /\ \A p \in ProbePaths :
           LET d == dispatch(World, matchers, p)
           IN /\ d.t # t
              /\ d.w.trans[t] = trans[t]
              /\ state.activeTransition = NoTransition =>
                   (d.t = nextId /\ d.w.trans[d.t].path = p)

C7_Raise ==
  \A t \in Ids : \A i \in trans[t].inflight :
    IsPending(World, t) =>
      LET w == settle(World, t, i, PLAIN_ERROR, middleware)
      IN /\ w.trans[t].state = "failed"
         /\ w.trans[t].err.type = PLAIN_ERROR

C7_Step ==
  \A t \in Ids :
    (trans[t].state = "pending" /\ trans'[t].state = "failed") =>
      /\ Committed(state') = Committed(state)
      /\ state'.activeTransition = NoTransition

\* C7: a transition fails only by a step of its own raising while it is
\* pending; the committed state stays, the slot is cleared, and the next
\* dispatch starts a fresh transition.
C7_Failure == [](C7_Failed /\ C7_Raise) /\ [][C7_Step]_vars

\* a transition failed while another state was committed, and the transition
\* created after it targets the pathname and query the failed one had
C7_Witness ==
  \E t, u \in Ids :
    /\ trans[t].state = "failed"
    /\ t < u
    /\ ~trans[u].noop
    /\ trans[u].pathname = trans[t].pathname
    /\ trans[u].query = trans[t].query

\* C8: the state tag of a transition changes only from pending, to one of
\* completed, cancelled, redirected and failed, and its outcome settles then
\* and only then; no step changes the tag, the error or the settlement of a
\* transition that is not pending.
C8_Step ==
  \A t \in Ids :
    /\ trans[t].state \in Terminal =>
         /\ trans'[t].state = trans[t].state
         /\ trans'[t].err = trans[t].err
         /\ trans'[t].settled = trans[t].settled
    /\ trans'[t].state # trans[t].state =>
         /\ trans[t].state = "pending"
         /\ trans'[t].state \in Terminal
         /\ trans'[t].settled = 1

C8_Settled ==
  \A t \in Ids :
    /\ trans[t].state \in Terminal \cup {"pending"}
    /\ trans[t].settled = IF trans[t].state = "pending" THEN 0 ELSE 1

\* C8: a settled transition's state and error never change again, by cancel
\* or by any other step.
C8_TerminalIsFinal == []C8_Settled /\ [][C8_Step]_vars

\* a completed transition and a cancelled one exist after the router was
\* destroyed
C8_Witness ==
  \E t, u \in Ids :
    /\ trans[t].state = "completed"
    /\ ~trans[t].noop
    /\ trans[u].state = "cancelled"
    /\ t < u
    /\ Committed(state) = Committed(EmptyState)

\* C9: the steps a transition has invoked are the middleware in registration
\* order from the first on; at most one step is in flight, the last invoked
\* one, and every step before it has resolved.
C9_InOrder ==
  \A t \in Ids :
    /\ \A k \in DOMAIN trans[t].invoked : trans[t].invoked[k] = k
    /\ Len(trans[t].invoked) <= Len(middleware)
    /\ Cardinality(trans[t].inflight) <= 1
    /\ trans[t].inflight \subseteq {Len(trans[t].invoked)}
    /\ \A k \in 1..(Len(trans[t].invoked) - 1) : k \in trans[t].resolved

\* the second middleware is in flight after the first resolved
C9_Witness ==
  \E t \in Ids :
    /\ trans[t].invoked = <<1, 2>>
    /\ trans[t].inflight = {2}
    /\ trans[t].resolved = {1}

\* C10: when every invoked middleware step settles, a pending transition
\* reaches a terminal state, and a transition in a terminal state never holds
\* the activeTransition slot.
C10_Leaves ==
  \A t \in Ids : trans[t].state \in Terminal => state.activeTransition # t

\* C10: under fair scheduling of middleware steps every pending transition
\* eventually leaves the pending state, and never returns to it.
C10_Terminates ==
  /\ \A t \in 1..MaxId :
       (t \in Ids /\ trans[t].state = "pending")
         ~> (t \in Ids /\ trans[t].state \in Terminal /\ state.activeTransition # t)
  /\ []C10_Leaves

\* every transition created has ended, one of them failed and a later one
\* completed, nothing is in flight and the slot is empty
C10_Witness ==
  /\ state.activeTransition = NoTransition
  /\ \A t \in Ids : trans[t].state \in Terminal /\ trans[t].inflight = {}
  /\ \E t, u \in Ids :
       /\ t < u
       /\ trans[t].state = "failed"
       /\ trans[u].state = "completed"
       /\ trans[u].invoked # <<>>

\* -------------------------------------------------------- claims on map
\* the full path of the branch that ends in node i
PathOfNode(tree, i) == BranchPath(Branch(tree, i))

\* two nodes, the first declared before the second, whose branches normalize
\* to one path
SamePath(tree, i, j) ==
  /\ i < j
  /\ PathOfNode(tree, i) = PathOfNode(tree, j)

Concrete(tree, i) == ~tree[i].options.abstract

\* the error map() throws names routes i and j
Names(tree, r, i, j) ==
  /\ r.thrown
  /\ r.error.first = tree[i].name
  /\ r.error.second = tree[j].name

\* C11 as stated: whenever two branches of the declaration normalize to the
\* same path, map() throws an error that names both routes.
C11_AnyTwoBranches ==
  LET r == map(routes)
  IN \A i, j \in DOMAIN routes :
       SamePath(routes, i, j) =>
         \E a, b \in DOMAIN routes : SamePath(routes, a, b) /\ Names(routes, r, a, b)

\* C11: map() throws exactly when two branches that end in non-abstract
\* routes normalize to the same path, and the error names two such routes,
\* the earlier declared first; a branch that ends in an abstract route shares
\* its path with another branch without an error.
C11_DuplicatePaths ==
  LET r == map(routes)
      dupes == {ij \in (DOMAIN routes) \X (DOMAIN routes) :
                  /\ SamePath(routes, ij[1], ij[2])
                  /\ Concrete(routes, ij[1])
                  /\ Concrete(routes, ij[2])}
  IN /\ matchers = r.matchers
     /\ r.thrown <=> dupes # {}
     /\ r.thrown =>
          \E ij \in dupes :
            /\ Names(routes, r, ij[1], ij[2])
            /\ r.error.path = PathOfNode(routes, ij[1])

\* map() threw on two routes declared with different path strings that
\* normalize to one path
C11_Witness ==
  /\ Len(routes) = 2
  /\ routes[1].path # routes[2].path
  /\ Concrete(routes, 1) /\ Concrete(routes, 2)
  /\ SamePath(routes, 1, 2)
  /\ map(routes).thrown
  /\ matchers = map(routes).matchers

\* the declaration of the posts example, the child's path as given
PostsTree(childPath) ==
  << RouteNode("posts", Str_posts, FALSE, 0),
     RouteNode("post", childPath, FALSE, 1) >>

\* with this declaration compiled there is a matcher '/posts/:id' for post,
\* and the transition dispatch creates for '/posts/42?sort=desc' carries
\* params {id: '42'}, query {sort: 'desc'} and the route chain [posts, post]
PostsExample(tree) ==
  (routes = tree /\ matchers = map(tree).matchers) =>
    LET d == dispatch(World, matchers, Str_posts42sort)
        tr == d.w.trans[d.t]
    IN /\ \E k \in DOMAIN matchers :
            /\ matchers[k].name = "post"
            /\ matchers[k].path = Str_posts \o Str_id
       /\ tr.params = [k \in {<<"i", "d">>} |-> <<"4", "2">>]
       /\ tr.query = [k \in {<<"s", "o", "r", "t">>} |-> <<"d", "e", "s", "c">>]
       /\ [k \in DOMAIN tr.routes |-> tr.routes[k].name] = <<"posts", "post">>
       /\ tr.pathname = Str_posts \o <<"/", "4", "2">>

\* C12 as stated: the child is declared with the path '/:id'.
C12_LeadingSlashChild == PostsExample(PostsTree(Str_id))

\* C12: posts '/posts' with the child post declared with the path ':id'
\* compiles to the matcher path '/posts/:id', and dispatching
\* '/posts/42?sort=desc' yields params {id: '42'}, query {sort: 'desc'} and
\* the route chain [posts, post].
C12_PostsExample == PostsExample(PostsTree(Str_idRel))

\* the posts declaration with the child path ':id' is the compiled one
C12_Witness ==
  /\ routes = PostsTree(Str_idRel)
  /\ matchers = map(routes).matchers
  /\ Len(matchers) = 2
  /\ ~map(routes).thrown

NoTwoShareAPath(ms) ==
  \A i, j \in DOMAIN ms : i < j => ms[i].path # ms[j].path

\* C13 as stated: after any map() call no two matchers have the same path.
C13_NoTwoMatchersShareAPath == NoTwoShareAPath(matchers)

\* the matchers registered during the traversal, before the index aliases
Traversed(tree, r) ==
  IF r.thrown THEN Len(r.matchers)
  ELSE Cardinality({i \in DOMAIN tree : Concrete(tree, i)})

\* C13: after a map() call that returns, two matchers with the same path are
\* a route's matcher and the index alias of an abstract route appended after
\* the traversal, with the same routes branch; after one that throws, they
\* are the two routes the error names, the later one the last matcher pushed.
\* No three matchers share a path.
C13_SharedPaths ==
  LET r == map(routes)
      n == Traversed(routes, r)
  IN /\ matchers = r.matchers
     /\ \A i, j \in DOMAIN matchers :
          (i < j /\ matchers[i].path = matchers[j].path) =>
            /\ IF r.thrown
               THEN /\ j = Len(matchers)
                    /\ r.error.first = matchers[i].name
                    /\ r.error.second = matchers[j].name
               ELSE /\ i <= n /\ n < j
                    /\ matchers[j].routes = matchers[i].routes
                    /\ \E a \in DOMAIN routes :
                         /\ ~Concrete(routes, a)
                         /\ routes[a].name = matchers[j].name
                         /\ PathOfNode(routes, a) = matchers[j].path
            /\ \A k \in DOMAIN matchers :
                 matchers[k].path = matchers[i].path => k \in {i, j}

\* map() returned with an index alias: an abstract route and its child have
\* one path and the matcher list holds that path twice
C13_Witness ==
  /\ Len(routes) = 2
  /\ ~Concrete(routes, 1) /\ Concrete(routes, 2)
  /\ routes[2].parent = 1
  /\ SamePath(routes, 1, 2)
  /\ ~map(routes).thrown
  /\ Len(matchers) = 2
  /\ matchers[1].path = matchers[2].path

\* the non-abstract nodes the traversal reached: all of them, or, when map()
\* threw, those up to the node it threw on
Reached(tree) ==
  {i \in DOMAIN tree :
     /\ Concrete(tree, i)
     /\ ~\E a, b \in DOMAIN tree :
           /\ b < i
           /\ SamePath(tree, a, b)
           /\ Concrete(tree, a) /\ Concrete(tree, b)}

Least(set) == CHOOSE i \in set : \A j \in set : i <= j

\* C18: for every pathname, match() returns the branch of the first
\* non-abstract route, in depth-first declaration order, whose full path
\* pattern matches it, and no routes when there is none; the index aliases
\* appended after the traversal do not change the result.
C18_FirstDeclaredWins ==
  LET r == map(routes)
  IN /\ matchers = r.matchers
     /\ \A p \in MapPaths :
          LET m == match(matchers, p)
              hits == {i \in Reached(routes) :
                         extractParams(PathOfNode(routes, i), m.pathname).ok}
          IN /\ IF hits = {} THEN m.routes = <<>>
                ELSE LET branch == Branch(routes, Least(hits))
                     IN m.routes = [k \in DOMAIN branch |->
                                      descriptor(branch[k], m.params)]
             /\ match(SubSeq(matchers, 1, Traversed(routes, r)), p) = m

\* '/posts' is matched by the route declared first, with the pattern '/:id',
\* although the literal route '/posts' declared after it matches as well
C18_Witness ==
  /\ Len(routes) = 2
  /\ Concrete(routes, 1) /\ Concrete(routes, 2)
  /\ PathOfNode(routes, 1) = Str_id
  /\ PathOfNode(routes, 2) = Str_posts
  /\ matchers = map(routes).matchers
  /\ match(matchers, Str_posts).routes # <<>>
  /\ match(matchers, Str_posts).routes[1].name = routes[1].name
  /\ match(matchers, Str_posts).params # EmptyMap

\* ------------------------------------------------- claims on navigation
\* C14: in the step in which a transition requested through transitionTo /
\* replaceWith is cancelled, its rejection handlers leave the location at the
\* URL it had before the transition was first requested.
C14_Step ==
  \A t \in Ids :
    (/\ trans[t].state = "pending"
     /\ trans'[t].state = "cancelled"
     /\ trans[t].handlers # <<>>) =>
      location'.url = trans[t].handlers[1]

\* C14: every step that cancels a transition requested through transitionTo /
\* replaceWith leaves the location at the URL it had before the first request.
C14_CancelRestoresUrl == [][C14_Step]_vars

\* the route names handed to generate / transitionTo that no matcher carries
UnknownNames(ms) ==
  {n \in {Str_nameA, Str_nameItem, Str_nameNone, Str_postsRel} :
     \A k \in DOMAIN ms : NameChars(ms[k].name) # n}

\* C15: in every reachable state generate() throws for a route name that no
\* matcher carries, and so does transitionTo() / replaceWith(), leaving the
\* committed state, the activeTransition slot, the transitions, the id
\* counter and the location URL as they were.
C15_UnknownNameThrows ==
  \A n \in UnknownNames(matchers) :
    /\ ~generate(World, matchers, n).ok
    /\ doTransition(World, matchers, n) =
         [w |-> World, t |-> NoTransition, thrown |-> TRUE]

\* a transition requested through transitionTo is pending and active, with
\* the location written, and a name no matcher carries can be requested
C15_Witness ==
  /\ location.defined
  /\ Str_nameNone \in UnknownNames(matchers)
  /\ \E t \in Ids :
       /\ state.activeTransition = t
       /\ IsPending(World, t)
       /\ trans[t].handlers # <<>>
       /\ location.url = trans[t].path

\* ---------------------------------------------------- claims on destroy
\* destroy() cancels the pending transition with a TransitionCancelled error,
\* leaves the committed state empty with no active transition, and leaves
\* every other transition alone
C16_Destroy ==
  LET w == destroy(World)
      a == state.activeTransition
  IN /\ w.state = EmptyState
     /\ \A t \in Ids :
          IF t = a /\ IsPending(World, t)
          THEN /\ w.trans[t].state = "cancelled"
               /\ w.trans[t].err.type = TRANSITION_CANCELLED
               /\ w.trans[t].settled = 1
          ELSE w.trans[t] = trans[t]
     /\ PendingIds(w) = {}

\* a cancelled transition stays cancelled, and the settlement of a step of
\* it leaves the committed state and the slot as they were
C16_Afterwards ==
  \A t \in Ids :
    trans[t].state = "cancelled" =>
      /\ trans'[t].state = "cancelled"
      /\ trans'[t].inflight # trans[t].inflight => state' = state

\* C16: destroy() cancels the pending transition (its outcome rejects with a
\* TransitionCancelled error) and empties the committed state and the slot;
\* no later settlement of that transition's steps changes the committed state.
C16_DestroyCancels == []C16_Destroy /\ [][C16_Afterwards]_vars

\* a state had been committed; after destroy() the committed state is empty,
\* and the step the cancelled transition had in flight has settled since
C16_Witness ==
  \E t, u \in Ids :
    /\ t < u
    /\ trans[t].state = "completed" /\ ~trans[t].noop
    /\ trans[u].state = "cancelled"
    /\ trans[u].err.type = TRANSITION_CANCELLED
    /\ trans[u].invoked # <<>>
    /\ trans[u].inflight = {}
    /\ state = EmptyState

\* ------------------------------------------ claims on the match result
\* an options bag as a reader sees it: its keys, and the content of the
\* object under meta
Seen(options) == [abstract |-> options.abstract, meta |-> heap[options.meta]]

AsDeclared(route) ==
  /\ route.name \in {"a", "p", "item"}
  /\ Seen(route.options) = [abstract |-> FALSE, meta |-> Declared]

\* C17: whatever middleware did to the options of the routes of its
\* transition's match result, keys of the bag and values nested in it alike,
\* the routes of the compiled tree, of the matcher list and of the match
\* result of a later dispatch read as declared.
C17_NoLeak ==
  /\ \A i \in DOMAIN routes : AsDeclared(routes[i])
  /\ \A j \in DOMAIN matchers : \A k \in DOMAIN matchers[j].routes :
       AsDeclared(matchers[j].routes[k])
  /\ \A p \in LivePaths :
       LET m == match(matchers, p)
       IN \A k \in DOMAIN m.routes : AsDeclared(m.routes[k])

\* ------------------------------------------- claims on dispatch, again
\* C19: while a transition to another target is pending, a dispatch of the
\* committed pathname and query redirects the pending transition and creates
\* a transition that is not a noop, is pending and active, and whose start
\* invokes the first middleware.
C19_NoNoopWhilePending ==
  \A p \in ProbePaths :
    LET m == match(matchers, p)
        a == state.activeTransition
        d == dispatch(World, matchers, p)
    IN (/\ a # NoTransition
        /\ OtherTarget(World, m)
        /\ state.pathname = m.pathname
        /\ state.query = m.query) =>
         /\ d.w.trans[a].state = "redirected"
         /\ d.w.trans[a].err = [type |-> TRANSITION_REDIRECTED, nextPath |-> p]
         /\ d.t = nextId
         /\ ~d.w.trans[d.t].noop
         /\ d.w.trans[d.t].state = "pending"
         /\ ~d.w.trans[d.t].started
         /\ d.w.state.activeTransition = d.t
         /\ Committed(d.w.state) = Committed(state)
         /\ middleware # <<>> =>
              callNext([d.w EXCEPT !.trans[d.t].started = TRUE],
                       d.t, 0, middleware).trans[d.t].invoked = <<1>>

\* '/a' was committed, a transition to another target was redirected by a
\* dispatch of '/a', and the transition that dispatch created ran a
\* middleware step and completed
C19_Witness ==
  \E t \in Ids :
    /\ t + 2 \in Ids
    /\ trans[t].state = "completed" /\ ~trans[t].noop
    /\ trans[t + 1].state = "redirected"
    /\ trans[t + 1].pathname # trans[t].pathname
    /\ trans[t + 1].err.nextPath = trans[t + 2].path
    /\ trans[t + 2].pathname = trans[t].pathname
    /\ trans[t + 2].query = trans[t].query
    /\ ~trans[t + 2].noop
    /\ trans[t + 2].invoked # <<>>
    /\ trans[t + 2].state = "completed"

\* no matcher matches the path
Unmatched(ms, p) ==
  \A j \in DOMAIN ms : ~extractParams(ms[j].path, match(ms, p).pathname).ok

\* a dispatch of an unmatched path returns the pending transition when that
\* has its target, and else creates a transition with no routes and no
\* params, pending and active unless it is a noop, after redirecting the
\* pending one
C20_Dispatch ==
  \A p \in ProbePaths :
    Unmatched(matchers, p) =>
      LET m == match(matchers, p)
          a == state.activeTransition
          d == dispatch(World, matchers, p)
      IN IF SameAsActive(World, m) THEN d.t = a /\ d.w = World
         ELSE /\ d.t = nextId
              /\ d.w.trans[d.t].routes = <<>>
              /\ d.w.trans[d.t].params = EmptyMap
              /\ d.w.trans[d.t].pathname = m.pathname
              /\ d.w.trans[d.t].err = NoErr
              /\ a # NoTransition => d.w.trans[a].state = "redirected"
              /\ IF SameAsCommitted(World, m)
                 THEN d.w.trans[d.t].noop
                 ELSE /\ d.w.trans[d.t].state = "pending"
                      /\ d.w.state.activeTransition = d.t

\* the step in which a transition with no routes completes commits its
\* pathname with an empty routes list and no params
C20_Completes ==
  \A t \in Ids :
    (/\ trans[t].state = "pending"
     /\ trans'[t].state = "completed"
     /\ trans[t].routes = <<>>) =>
      /\ state'.pathname = trans[t].pathname
      /\ state'.routes = <<>>
      /\ state'.params = EmptyMap
      /\ state'.activeTransition = NoTransition

\* C20: a dispatch of a path no matcher matches raises no error and creates
\* an ordinary pending transition with an empty route chain and no params,
\* after redirecting the pending one; when that transition completes, the
\* committed state holds the unmatched pathname and an empty routes list.
C20_UnmatchedPath == []C20_Dispatch /\ [][C20_Completes]_vars

\* the transition dispatched for '/z' redirected a pending one, ran a
\* middleware step and completed; '/z' is committed with no routes
C20_Witness ==
  \E t \in Ids :
    /\ t + 1 \in Ids
    /\ trans[t].state = "redirected"
    /\ trans[t + 1].path = Str_nowhere
    /\ trans[t + 1].state = "completed"
    /\ trans[t + 1].invoked # <<>>
    /\ trans[t + 1].routes = <<>>
    /\ state.pathname = Str_nowhere
    /\ state.routes = <<>>
    /\ state.params = EmptyMap

====
